---- MODULE Spec2Model ----
(***************************************************************************)
(* State-tax data pipeline: scripts/normalize-census-sources.mjs (source   *)
(* rows -> canonical CSV files) and scripts/ingest-state-tax-data.mjs      *)
(* (canonical CSV files -> the JSON summary the app loads).                *)
(*                                                                         *)
(* Representation.                                                         *)
(*  - A text is a tuple of one-character strings, so that trimming,        *)
(*    numeric parsing, slugifying and number formatting are computed       *)
(*    character by character as the scripts do.                            *)
(*  - A JavaScript number is a record [nan, v]: v counts TENTHS (fixed     *)
(*    point with one fractional digit, exact arithmetic), nan marks NaN.   *)
(*    Input texts carry at most one fractional digit.  perCapitaTotal,     *)
(*    the result of toFixed(2), counts HUNDREDTHS.                         *)
(*  - A row is a record whose DOMAIN is the set of columns present in the  *)
(*    source (hasOwnProperty), each cell a text.                           *)
(*  - A Map is a sequence of entries in insertion order.                   *)
(***************************************************************************)
EXTENDS Integers, Sequences, FiniteSets, TLC

(***************************************************************************)
(* Texts                                                                   *)
(***************************************************************************)
Digit == <<"0", "1", "2", "3", "4", "5", "6", "7", "8", "9">>

UpperCase == <<"A", "B", "C", "D", "E", "F", "G", "H", "I", "J", "K", "L", "M",
               "N", "O", "P", "Q", "R", "S", "T", "U", "V", "W", "X", "Y", "Z">>

LowerCase == <<"a", "b", "c", "d", "e", "f", "g", "h", "i", "j", "k", "l", "m",
               "n", "o", "p", "q", "r", "s", "t", "u", "v", "w", "x", "y", "z">>

Range(f) == {f[i] : i \in DOMAIN f}

IsDigit(c) == c \in Range(Digit)

DigitValue(c) == (CHOOSE i \in DOMAIN Digit : Digit[i] = c) - 1

\* String.prototype.trim over the model's alphabet (the only white space is " ").
RECURSIVE TrimLeft(_)
TrimLeft(s) ==
  IF s # <<>> /\ Head(s) = " " THEN TrimLeft(Tail(s)) ELSE s

RECURSIVE TrimRight(_)
TrimRight(s) ==
  IF s # <<>> /\ s[Len(s)] = " " THEN TrimRight(SubSeq(s, 1, Len(s) - 1)) ELSE s

Trim(s) == TrimRight(TrimLeft(s))

\* String.prototype.toLowerCase, one character.
ToLowerChar(c) ==
  IF c \in Range(UpperCase)
    THEN LowerCase[CHOOSE i \in DOMAIN UpperCase : UpperCase[i] = c]
    ELSE c

ToLowerCase(s) == [i \in DOMAIN s |-> ToLowerChar(s[i])]

(***************************************************************************)
(* JavaScript numbers                                                      *)
(***************************************************************************)
Num(v) == [nan |-> FALSE, v |-> v]

NaN == [nan |-> TRUE, v |-> 0]

IsFinite(n) == ~n.nan

IsDigits(s) == \A i \in DOMAIN s : IsDigit(s[i])

RECURSIVE DigitsValue(_)
DigitsValue(s) ==
  IF s = <<>> THEN 0
  ELSE 10 * DigitsValue(SubSeq(s, 1, Len(s) - 1)) + DigitValue(s[Len(s)])

\* An unsigned decimal literal: digits, digits "." digits, or "." digits.
UnsignedNumber(t) ==
  LET dots == {i \in DOMAIN t : t[i] = "."} IN
  IF dots = {}
    THEN IF t # <<>> /\ IsDigits(t) THEN Num(10 * DigitsValue(t)) ELSE NaN
    ELSE LET p  == CHOOSE i \in dots : TRUE
             ip == SubSeq(t, 1, p - 1)
             fp == SubSeq(t, p + 1, Len(t))
         IN  IF /\ Cardinality(dots) = 1
                /\ IsDigits(ip) /\ IsDigits(fp)
                /\ Len(ip) + Len(fp) > 0
                /\ Len(fp) <= 1
               THEN Num(10 * DigitsValue(ip) + DigitsValue(fp))
               ELSE NaN

\* Number(text): white space trimmed, "" is 0, a signed decimal literal, else NaN.
ToNumber(s) ==
  LET t == Trim(s) IN
  IF t = <<>> THEN Num(0)
  ELSE IF Head(t) = "-"
    THEN LET u == UnsignedNumber(Tail(t)) IN IF u.nan THEN NaN ELSE Num(-u.v)
  ELSE IF Head(t) = "+" THEN UnsignedNumber(Tail(t))
  ELSE UnsignedNumber(t)

\* Number(row[column]): a column the row does not have reads undefined, and
\* Number(undefined) is NaN.
NumberOfCell(row, col) ==
  IF col \in DOMAIN row THEN ToNumber(row[col]) ELSE NaN

\* .replace(/[$,]/g, '')
StripCurrency(s) == SelectSeq(s, LAMBDA c : c \notin {"$", ","})

\* .replace(/\((.*)\)/, '-$1'): the leftmost "(" that has a ")" after it, up to
\* the last ")" (greedy), becomes "-" followed by what was between them.
ParenToMinus(s) ==
  LET opens == {i \in DOMAIN s : s[i] = "(" /\ \E j \in DOMAIN s : j > i /\ s[j] = ")"}
  IN  IF opens = {} THEN s
      ELSE LET i == CHOOSE a \in opens : \A b \in opens : a <= b
               j == CHOOSE a \in DOMAIN s :
                      /\ s[a] = ")"
                      /\ \A b \in DOMAIN s : s[b] = ")" => b <= a
           IN  SubSeq(s, 1, i - 1) \o <<"-">> \o SubSeq(s, i + 1, j - 1)
                 \o SubSeq(s, j + 1, Len(s))

\* parseNumeric on a text: "" is falsy and reads 0, an unparsable text reads 0.
ParseNumericText(s) ==
  IF s = <<>> THEN 0
  ELSE LET parsed == ToNumber(Trim(ParenToMinus(StripCurrency(s))))
       IN  IF IsFinite(parsed) THEN parsed.v ELSE 0

\* parseNumeric(row[column]); an absent column reads undefined, which is falsy.
parseNumeric(row, col) ==
  IF col \in DOMAIN row THEN ParseNumericText(row[col]) ELSE 0

\* Math.round of a value in tenths, in tenths: halves round toward +Infinity.
MathRound(v) == 10 * ((v + 5) \div 10)

Abs(v) == IF v < 0 THEN -v ELSE v

\* Number((num / den).toFixed(2)) in hundredths, for den > 0: the nearest
\* hundredth, a tie going away from zero.
ToFixed2(num, den) ==
  LET q == (200 * Abs(num) + den) \div (2 * den)
  IN  IF num < 0 THEN -q ELSE q

(***************************************************************************)
(* Constants of both scripts                                               *)
(***************************************************************************)
\* The 50-state roster.  A state name is a text of one element: nothing in
\* the scripts looks inside a name, they only trim and compare it.
VALID_STATES ==
  { <<"Alabama">>, <<"Alaska">>, <<"Arizona">>, <<"Arkansas">>, <<"California">>,
    <<"Colorado">>, <<"Connecticut">>, <<"Delaware">>, <<"Florida">>, <<"Georgia">>,
    <<"Hawaii">>, <<"Idaho">>, <<"Illinois">>, <<"Indiana">>, <<"Iowa">>,
    <<"Kansas">>, <<"Kentucky">>, <<"Louisiana">>, <<"Maine">>, <<"Maryland">>,
    <<"Massachusetts">>, <<"Michigan">>, <<"Minnesota">>, <<"Mississippi">>,
    <<"Missouri">>, <<"Montana">>, <<"Nebraska">>, <<"Nevada">>, <<"New Hampshire">>,
    <<"New Jersey">>, <<"New Mexico">>, <<"New York">>, <<"North Carolina">>,
    <<"North Dakota">>, <<"Ohio">>, <<"Oklahoma">>, <<"Oregon">>, <<"Pennsylvania">>,
    <<"Rhode Island">>, <<"South Carolina">>, <<"South Dakota">>, <<"Tennessee">>,
    <<"Texas">>, <<"Utah">>, <<"Vermont">>, <<"Virginia">>, <<"Washington">>,
    <<"West Virginia">>, <<"Wisconsin">>, <<"Wyoming">> }

\* config.year of both configuration files: the one reference year.
TargetYear == 2023

\* config.year as a number of the model (tenths).
ConfigYear == Num(10 * TargetYear)

\* config.columns.tax and config.columns.population of ingestion.config.json:
\* the canonical CSV schema.
taxColumns ==
  [state |-> "state", year |-> "year", taxType |-> "tax_type",
   stateTaxRevenue |-> "state_tax_revenue", localTaxRevenue |-> "local_tax_revenue"]

populationColumns ==
  [state |-> "state", year |-> "year", population |-> "population"]

\* config.taxTypeMap: explicit label -> key overrides (one entry in the model).
taxTypeMap == [l \in {<<"I", "n", "c">>} |-> <<"i", "i", "t">>]

\* config.taxTypeLabels: key -> display label.
taxTypeLabels == [k \in {<<"i", "i", "t">>} |-> <<"I", "n", "c", "o", "m", "e">>]

\* normalizeState: String(value ?? '').trim()
normalizeState(row, col) == IF col \in DOMAIN row THEN Trim(row[col]) ELSE <<>>

IsAlnum(c) == c \in Range(LowerCase) \cup Range(Digit)

\* .replace(/[^a-z0-9]+/g, '_')
RECURSIVE CollapseNonAlnum(_)
CollapseNonAlnum(s) ==
  IF s = <<>> THEN <<>>
  ELSE IF IsAlnum(Head(s)) THEN <<Head(s)>> \o CollapseNonAlnum(Tail(s))
  ELSE IF Len(s) > 1 /\ ~IsAlnum(s[2]) THEN CollapseNonAlnum(Tail(s))
  ELSE <<"_">> \o CollapseNonAlnum(Tail(s))

\* .replace(/^_+|_+$/g, '')
RECURSIVE StripUnderscores(_)
StripUnderscores(s) ==
  IF s # <<>> /\ Head(s) = "_" THEN StripUnderscores(Tail(s))
  ELSE IF s # <<>> /\ s[Len(s)] = "_" THEN StripUnderscores(SubSeq(s, 1, Len(s) - 1))
  ELSE s

toTaxTypeKey(s) == StripUnderscores(CollapseNonAlnum(ToLowerCase(Trim(s))))

(***************************************************************************)
(* ingest-state-tax-data.mjs: the computation of run                       *)
(***************************************************************************)
\* Map.prototype.set on a Map kept as a sequence of [key, value] entries: an
\* existing key keeps its place and takes the new value, a new key is appended.
MapSet(m, k, v) ==
  IF \E i \in DOMAIN m : m[i].key = k
    THEN [i \in DOMAIN m |-> IF m[i].key = k THEN [key |-> k, value |-> v] ELSE m[i]]
    ELSE Append(m, [key |-> k, value |-> v])

MapHas(m, k) == \E i \in DOMAIN m : m[i].key = k

MapGet(m, k) == m[CHOOSE i \in DOMAIN m : m[i].key = k].value

\* IsOtherYear with the year test left out: no row is skipped for its year.
IsOtherYearIgnored(rowYear) == FALSE

\* Number.isFinite(rowYear) && rowYear !== config.year: the row is for another
\* year.  A year that is not a number does not make the row another year's.
IsOtherYear(rowYear) == IsFinite(rowYear) /\ rowYear # ConfigYear

\* PopulationStep with the first valid value of a state kept.
PopulationStepKeepingFirst(populationByState, row) ==
  LET rowYear    == NumberOfCell(row, populationColumns.year)
      state      == normalizeState(row, populationColumns.state)
      population == parseNumeric(row, populationColumns.population)
  IN  IF IsOtherYear(rowYear) THEN populationByState
      ELSE IF state = <<>> \/ state \notin VALID_STATES THEN populationByState
      ELSE IF population > 0 /\ ~MapHas(populationByState, state)
        THEN MapSet(populationByState, state, population)
      ELSE populationByState

\* One pass of the population loop.
PopulationStep(populationByState, row) ==
  LET rowYear    == NumberOfCell(row, populationColumns.year)
      state      == normalizeState(row, populationColumns.state)
      population == parseNumeric(row, populationColumns.population)
  IN  IF IsOtherYear(rowYear) THEN populationByState
      ELSE IF state = <<>> \/ state \notin VALID_STATES THEN populationByState
      ELSE IF population > 0 THEN MapSet(populationByState, state, population)
      ELSE populationByState

RECURSIVE PopulationLoop(_, _)
PopulationLoop(populationByState, rows) ==
  IF rows = <<>> THEN populationByState
  ELSE PopulationLoop(PopulationStep(populationByState, Head(rows)), Tail(rows))

\* InsertDescending with a later entry placed before the earlier entries it ties with.
RECURSIVE InsertBeforeTies(_, _)
InsertBeforeTies(sorted, e) ==
  IF sorted = <<>> THEN <<e>>
  ELSE IF Head(sorted).value > e.value
    THEN <<Head(sorted)>> \o InsertBeforeTies(Tail(sorted), e)
    ELSE <<e>> \o sorted

\* Array.prototype.sort((a, b) => b.value - a.value): stable, descending.
RECURSIVE InsertDescending(_, _)
InsertDescending(sorted, e) ==
  IF sorted = <<>> THEN <<e>>
  ELSE IF Head(sorted).value >= e.value
    THEN <<Head(sorted)>> \o InsertDescending(Tail(sorted), e)
    ELSE <<e>> \o sorted

RECURSIVE SortDescending(_)
SortDescending(s) ==
  IF s = <<>> THEN <<>>
  ELSE InsertDescending(SortDescending(SubSeq(s, 1, Len(s) - 1)), s[Len(s)])

Min(a, b) == IF a <= b THEN a ELSE b

\* .slice(0, n) for n >= 0
Slice(s, n) == SubSeq(s, 1, Min(n, Len(s)))

TopStates(populationByState, topN) ==
  LET ranked == Slice(SortDescending(populationByState), topN)
  IN  [i \in DOMAIN ranked |-> ranked[i].key]

\* config.taxTypeMap?.[rawTaxType] ?? toTaxTypeKey(rawTaxType)
TaxTypeKey(rawTaxType) ==
  IF rawTaxType \in DOMAIN taxTypeMap THEN taxTypeMap[rawTaxType] ELSE toTaxTypeKey(rawTaxType)

\* TrackTaxType without the taxTypeSeen test: every row pushes its key.
TrackTaxTypeUnseen(taxTypeOrder, taxTypeSeen, taxTypeKey) == Append(taxTypeOrder, taxTypeKey)

\* Lines 191-194: a key not seen before is pushed onto taxTypeOrder.
TrackTaxType(taxTypeOrder, taxTypeSeen, taxTypeKey) ==
  IF taxTypeKey \in taxTypeSeen THEN taxTypeOrder ELSE Append(taxTypeOrder, taxTypeKey)

\* AddRevenue with the category overwritten by the row's amount instead of summed.
AddRevenueOverwriting(existing, taxTypeKey, totalTax) ==
  [existing EXCEPT
     !.breakdown = MapSet(@, taxTypeKey, totalTax),
     !.totalRevenue = @ + totalTax]

\* Lines 208-209: the amount is added to the category and to the total.
AddRevenue(existing, taxTypeKey, totalTax) ==
  [existing EXCEPT
     !.breakdown = MapSet(@, taxTypeKey,
                     (IF MapHas(@, taxTypeKey) THEN MapGet(@, taxTypeKey) ELSE 0) + totalTax),
     !.totalRevenue = @ + totalTax]

\* Lines 200-206: the state's record, or a fresh one.
ExistingOrFresh(stateAggregation, state, populationByState) ==
  IF MapHas(stateAggregation, state) THEN MapGet(stateAggregation, state)
  ELSE [state |-> state,
        population |-> IF MapHas(populationByState, state)
                         THEN MapGet(populationByState, state) ELSE 0,
        totalRevenue |-> 0,
        breakdown |-> <<>>]

\* Lines 185-211 for a row of a selected state.
TaxRowOfState(acc, row, state, rawTaxType, populationByState) ==
  IF rawTaxType = <<>> THEN acc
  ELSE [stateAggregation |->
          MapSet(acc.stateAggregation, state,
                 AddRevenue(ExistingOrFresh(acc.stateAggregation, state, populationByState),
                            TaxTypeKey(rawTaxType),
                            parseNumeric(row, taxColumns.stateTaxRevenue)
                              + parseNumeric(row, taxColumns.localTaxRevenue))),
        taxTypeOrder |-> TrackTaxType(acc.taxTypeOrder, acc.taxTypeSeen, TaxTypeKey(rawTaxType)),
        taxTypeSeen |-> acc.taxTypeSeen \cup {TaxTypeKey(rawTaxType)}]

\* One pass of the tax loop over acc = [stateAggregation, taxTypeOrder, taxTypeSeen].
TaxStep(acc, row, topStateSet, populationByState) ==
  IF IsOtherYear(NumberOfCell(row, taxColumns.year)) THEN acc
  ELSE IF normalizeState(row, taxColumns.state) \notin topStateSet THEN acc
  ELSE TaxRowOfState(acc, row, normalizeState(row, taxColumns.state),
                     IF taxColumns.taxType \in DOMAIN row
                       THEN Trim(row[taxColumns.taxType]) ELSE <<>>,
                     populationByState)

RECURSIVE TaxLoop(_, _, _, _)
TaxLoop(acc, rows, topStateSet, populationByState) ==
  IF rows = <<>> THEN acc
  ELSE TaxLoop(TaxStep(acc, Head(rows), topStateSet, populationByState),
               Tail(rows), topStateSet, populationByState)

\* The .map of lines 214-224: total rounded, per capita from the accumulated total.
OutputState(state) ==
  LET population == state.population
      perCapita  == IF population > 0 THEN ToFixed2(state.totalRevenue, population) ELSE 0
  IN  [state |-> state.state,
       population |-> state.population,
       breakdown |-> state.breakdown,
       totalRevenue |-> MathRound(state.totalRevenue),
       perCapitaTotal |-> perCapita]

\* InsertByRevenue with a later state placed before the earlier states it ties with.
RECURSIVE InsertByRevenueBeforeTies(_, _)
InsertByRevenueBeforeTies(sorted, e) ==
  IF sorted = <<>> THEN <<e>>
  ELSE IF Head(sorted).totalRevenue > e.totalRevenue
    THEN <<Head(sorted)>> \o InsertByRevenueBeforeTies(Tail(sorted), e)
    ELSE <<e>> \o sorted

\* .sort((a, b) => b.totalRevenue - a.totalRevenue): stable, descending.
RECURSIVE InsertByRevenue(_, _)
InsertByRevenue(sorted, e) ==
  IF sorted = <<>> THEN <<e>>
  ELSE IF Head(sorted).totalRevenue >= e.totalRevenue
    THEN <<Head(sorted)>> \o InsertByRevenue(Tail(sorted), e)
    ELSE <<e>> \o sorted

RECURSIVE SortByRevenue(_)
SortByRevenue(s) ==
  IF s = <<>> THEN <<>>
  ELSE InsertByRevenue(SortByRevenue(SubSeq(s, 1, Len(s) - 1)), s[Len(s)])

BuildStates(stateAggregation) ==
  SortByRevenue([i \in DOMAIN stateAggregation |-> OutputState(stateAggregation[i].value)])

TaxTypes(taxTypeOrder) ==
  [i \in DOMAIN taxTypeOrder |->
     [key |-> taxTypeOrder[i],
      label |-> IF taxTypeOrder[i] \in DOMAIN taxTypeLabels
                  THEN taxTypeLabels[taxTypeOrder[i]] ELSE taxTypeOrder[i]]]

(***************************************************************************)
(* normalize-census-sources.mjs: the computation of run                    *)
(***************************************************************************)
CENSUS_TAX_CODE_TO_TYPE ==
  [c \in {<<"LF0022">>, <<"LF0023">>, <<"LF0011">>, <<"LF0012">>, <<"LF0009">>, <<"LF0033">>} |->
     CASE c = <<"LF0022">> -> <<"I", "n", "d", "i", "v", "i", "d", "u", "a", "l", " ",
                                "i", "n", "c", "o", "m", "e", " ", "t", "a", "x">>
       [] c = <<"LF0023">> -> <<"C", "o", "r", "p", "o", "r", "a", "t", "e", " ",
                                "i", "n", "c", "o", "m", "e", " ", "t", "a", "x">>
       [] c = <<"LF0011">> -> <<"G", "e", "n", "e", "r", "a", "l", " ",
                                "s", "a", "l", "e", "s", " ", "t", "a", "x">>
       [] c = <<"LF0012">> -> <<"S", "e", "l", "e", "c", "t", "i", "v", "e", " ",
                                "s", "a", "l", "e", "s", " ", "t", "a", "x">>
       [] c = <<"LF0009">> -> <<"P", "r", "o", "p", "e", "r", "t", "y", " ", "t", "a", "x">>
       [] c = <<"LF0033">> -> <<"O", "t", "h", "e", "r", " ", "t", "a", "x">>]

LICENSE_CODES ==
  { <<"LF0024">>, <<"LF0025">>, <<"LF0026">>, <<"LF0027">>, <<"LF0028">>,
    <<"LF0029">>, <<"LF0030">>, <<"LF0031">>, <<"LF0032">> }

LicenseTax == <<"L", "i", "c", "e", "n", "s", "e", " ", "t", "a", "x">>

\* config.normalization of source-download.config.json: the ordered aliases of
\* each logical field.
normalization ==
  [tax |-> [state |-> <<"state", "State", "NAME">>,
            year |-> <<"year", "YEAR">>,
            taxType |-> <<"tax_type", "category">>,
            stateTaxRevenue |-> <<"state_tax_revenue", "state_amount">>,
            localTaxRevenue |-> <<"local_tax_revenue", "local_amount">>],
   population |-> [state |-> <<"state", "State", "NAME">>,
                   year |-> <<"year", "YEAR">>,
                   population |-> <<"population", "POP">>]]

\* pickColumn: the cell of the first alias the row has; [found |-> FALSE] is
\* undefined.
pickColumn(row, aliases) ==
  LET hits == {i \in DOMAIN aliases : aliases[i] \in DOMAIN row}
  IN  IF hits = {} THEN [found |-> FALSE, text |-> <<>>]
      ELSE [found |-> TRUE,
            text |-> row[aliases[CHOOSE i \in hits : \A j \in hits : i <= j]]]

\* String(value ?? '').trim() of a picked cell.
TrimmedOrEmpty(cell) == IF cell.found THEN Trim(cell.text) ELSE <<>>

\* Number(value ?? config.year) of a picked cell.
YearOrConfig(cell) == IF cell.found THEN ToNumber(cell.text) ELSE ConfigYear

\* parseNumeric of a picked cell.
ParseNumericCell(cell) == IF cell.found THEN ParseNumericText(cell.text) ELSE 0

\* taxRowsLookLikeCensusApi
LooksLikeCensusApi(rows) ==
  /\ Len(rows) > 0
  /\ {"AGG_DESC", "GOVTYPE", "AMOUNT"} \subseteq DOMAIN rows[1]

\* CensusStep with the amount assigned to the bucket side instead of added.
CensusStepOverwriting(bucket, row) ==
  LET state   == TrimmedOrEmpty(pickColumn(row, <<"NAME", "state", "State">>))
      year    == YearOrConfig(pickColumn(row, <<"YEAR", "year">>))
      code    == TrimmedOrEmpty(pickColumn(row, <<"AGG_DESC">>))
      govType == TrimmedOrEmpty(pickColumn(row, <<"GOVTYPE">>))
      taxType == IF code \in DOMAIN CENSUS_TAX_CODE_TO_TYPE THEN CENSUS_TAX_CODE_TO_TYPE[code]
                 ELSE IF code \in LICENSE_CODES THEN LicenseTax
                 ELSE <<>>
      amount  == ParseNumericCell(pickColumn(row, <<"AMOUNT">>))
      mapKey  == [state |-> state, year |-> year, tax_type |-> taxType]
      current == IF MapHas(bucket, mapKey) THEN MapGet(bucket, mapKey)
                 ELSE [state |-> state, year |-> year, tax_type |-> taxType,
                       state_tax_revenue |-> 0, local_tax_revenue |-> 0]
      updated == [current EXCEPT
                    !.state_tax_revenue = IF govType = <<"002">> THEN amount ELSE @,
                    !.local_tax_revenue = IF govType = <<"003">> THEN amount ELSE @]
  IN  IF \/ state = <<>> \/ state \notin VALID_STATES \/ code = <<>>
         \/ govType \notin {<<"002">>, <<"003">>}
        THEN bucket
      ELSE IF taxType = <<>> THEN bucket
      ELSE MapSet(bucket, mapKey, updated)

\* CensusStep with the level indicator made part of the bucket key.
CensusStepPerLevel(bucket, row) ==
  LET state   == TrimmedOrEmpty(pickColumn(row, <<"NAME", "state", "State">>))
      year    == YearOrConfig(pickColumn(row, <<"YEAR", "year">>))
      code    == TrimmedOrEmpty(pickColumn(row, <<"AGG_DESC">>))
      govType == TrimmedOrEmpty(pickColumn(row, <<"GOVTYPE">>))
      taxType == IF code \in DOMAIN CENSUS_TAX_CODE_TO_TYPE THEN CENSUS_TAX_CODE_TO_TYPE[code]
                 ELSE IF code \in LICENSE_CODES THEN LicenseTax
                 ELSE <<>>
      amount  == ParseNumericCell(pickColumn(row, <<"AMOUNT">>))
      mapKey  == [state |-> state, year |-> year, tax_type |-> taxType, level |-> govType]
      current == IF MapHas(bucket, mapKey) THEN MapGet(bucket, mapKey)
                 ELSE [state |-> state, year |-> year, tax_type |-> taxType,
                       state_tax_revenue |-> 0, local_tax_revenue |-> 0]
      updated == [current EXCEPT
                    !.state_tax_revenue = IF govType = <<"002">> THEN @ + amount ELSE @,
                    !.local_tax_revenue = IF govType = <<"003">> THEN @ + amount ELSE @]
  IN  IF \/ state = <<>> \/ state \notin VALID_STATES \/ code = <<>>
         \/ govType \notin {<<"002">>, <<"003">>}
        THEN bucket
      ELSE IF taxType = <<>> THEN bucket
      ELSE MapSet(bucket, mapKey, updated)

\* One pass of the bucket loop of normalizeTaxFromCensusApiRows.  The bucket is a
\* Map keyed by state||year||taxType.
CensusStep(bucket, row) ==
  LET state   == TrimmedOrEmpty(pickColumn(row, <<"NAME", "state", "State">>))
      year    == YearOrConfig(pickColumn(row, <<"YEAR", "year">>))
      code    == TrimmedOrEmpty(pickColumn(row, <<"AGG_DESC">>))
      govType == TrimmedOrEmpty(pickColumn(row, <<"GOVTYPE">>))
      taxType == IF code \in DOMAIN CENSUS_TAX_CODE_TO_TYPE THEN CENSUS_TAX_CODE_TO_TYPE[code]
                 ELSE IF code \in LICENSE_CODES THEN LicenseTax
                 ELSE <<>>
      amount  == ParseNumericCell(pickColumn(row, <<"AMOUNT">>))
      mapKey  == [state |-> state, year |-> year, tax_type |-> taxType]
      current == IF MapHas(bucket, mapKey) THEN MapGet(bucket, mapKey)
                 ELSE [state |-> state, year |-> year, tax_type |-> taxType,
                       state_tax_revenue |-> 0, local_tax_revenue |-> 0]
      updated == [current EXCEPT
                    !.state_tax_revenue = IF govType = <<"002">> THEN @ + amount ELSE @,
                    !.local_tax_revenue = IF govType = <<"003">> THEN @ + amount ELSE @]
  IN  IF \/ state = <<>> \/ state \notin VALID_STATES \/ code = <<>>
         \/ govType \notin {<<"002">>, <<"003">>}
        THEN bucket
      ELSE IF taxType = <<>> THEN bucket
      ELSE MapSet(bucket, mapKey, updated)

RECURSIVE CensusLoop(_, _)
CensusLoop(bucket, rows) ==
  IF rows = <<>> THEN bucket ELSE CensusLoop(CensusStep(bucket, Head(rows)), Tail(rows))

normalizeTaxFromCensusApiRows(rows) ==
  LET bucket == CensusLoop(<<>>, rows)
      values == [i \in DOMAIN bucket |-> bucket[i].value]
  IN  SelectSeq(values, LAMBDA row : row.state_tax_revenue > 0 \/ row.local_tax_revenue > 0)

\* The .map and .filter of the pre-normalized shape.
MapTaxRow(row) ==
  [state |-> TrimmedOrEmpty(pickColumn(row, normalization.tax.state)),
   year |-> YearOrConfig(pickColumn(row, normalization.tax.year)),
   tax_type |-> TrimmedOrEmpty(pickColumn(row, normalization.tax.taxType)),
   state_tax_revenue |-> ParseNumericCell(pickColumn(row, normalization.tax.stateTaxRevenue)),
   local_tax_revenue |-> ParseNumericCell(pickColumn(row, normalization.tax.localTaxRevenue))]

\* KeepTaxRow without the roster test.
KeepTaxRowOfAnyState(row) == row.state # <<>> /\ row.tax_type # <<>>

KeepTaxRow(row) == row.state # <<>> /\ row.tax_type # <<>> /\ row.state \in VALID_STATES

NormalizeTaxRows(rows) ==
  IF LooksLikeCensusApi(rows) THEN normalizeTaxFromCensusApiRows(rows)
  ELSE SelectSeq([i \in DOMAIN rows |-> MapTaxRow(rows[i])], KeepTaxRow)

MapPopulationRow(row) ==
  [state |-> TrimmedOrEmpty(pickColumn(row, normalization.population.state)),
   year |-> YearOrConfig(pickColumn(row, normalization.population.year)),
   population |-> MathRound(ParseNumericCell(pickColumn(row, normalization.population.population)))]

KeepPopulationRow(row) ==
  row.state # <<>> /\ row.population > 0 /\ row.state \in VALID_STATES

NormalizePopulationRows(rows) ==
  SelectSeq([i \in DOMAIN rows |-> MapPopulationRow(rows[i])], KeepPopulationRow)

\* String(n) of a non-negative whole number.
RECURSIVE DigitsOf(_)
DigitsOf(n) ==
  IF n < 10 THEN <<Digit[n + 1]>> ELSE DigitsOf(n \div 10) \o <<Digit[(n % 10) + 1]>>

\* String(v) of a number in tenths.
FormatTenths(v) ==
  (IF v < 0 THEN <<"-">> ELSE <<>>)
    \o DigitsOf(Abs(v) \div 10)
    \o (IF Abs(v) % 10 = 0 THEN <<>> ELSE <<".", Digit[(Abs(v) % 10) + 1]>>)

\* String(number)
FormatNumber(n) == IF n.nan THEN <<"N", "a", "N">> ELSE FormatTenths(n.v)

\* writeCsv then Papa.parse: each cell is String(value); quoting is undone by the
\* reader, so the row read back holds exactly those texts.
TaxCsvRow(row) ==
  [state |-> row.state,
   year |-> FormatNumber(row.year),
   tax_type |-> row.tax_type,
   state_tax_revenue |-> FormatTenths(row.state_tax_revenue),
   local_tax_revenue |-> FormatTenths(row.local_tax_revenue)]

PopulationCsvRow(row) ==
  [state |-> row.state,
   year |-> FormatNumber(row.year),
   population |-> FormatTenths(row.population)]

(***************************************************************************)
(* Bounds and the input files of the model                                 *)
(***************************************************************************)
\* Rows in a generated canonical tax CSV file.
MaxTaxRows == 3

\* Rows in a generated canonical population CSV file.
MaxPopulationRows == 3

\* Rows in a generated source file.
MaxSourceRows == 2

\* config.topNStates ranges over 1..MaxTopN.
MaxTopN == 2

\* Script runs in one behaviour.
MaxRuns == 2

MaxCensusRows == 3

\* A canonical CSV file: missing, malformed (Papa.parse reports errors) or rows.
CsvFile(status, rows) == [status |-> status, rows |-> rows]

\* What JSON.parse makes of a text: an array of items, a number, null, or a
\* SyntaxError ("invalid"); "none" where the text is not read as JSON.  The items
\* of the top array are such values, the items of a row or header array are cells.
JsonArray(items) == [type |-> "array", items |-> items]

JsonNumber == [type |-> "number", items |-> <<>>]

JsonNull == [type |-> "null", items |-> <<>>]

InvalidJson == [type |-> "invalid", items |-> <<>>]

JsonNone == [type |-> "none", items |-> <<>>]

\* A source file: missing, blank, text that starts with '[' after trimming
\* ("json"), or delimited text ("csv") that Papa.parse reads (ok) or not.
SourceFile(kind, ok, rows) == [kind |-> kind, ok |-> ok, rows |-> rows, json |-> JsonNone]

JsonFile(json) == [kind |-> "json", ok |-> TRUE, rows |-> <<>>, json |-> json]

\* The JSON table of a header and of records over it: the header array, then
\* one array per record.
JsonTable(headers, rows) ==
  JsonArray(<<JsonArray(headers)>>
            \o [i \in DOMAIN rows |-> JsonArray([k \in DOMAIN headers |-> rows[i][headers[k]]])])

CensusHeader == <<"NAME", "YEAR", "AGG_DESC", "GOVTYPE", "AMOUNT">>

SeqsUpTo(S, n) == UNION {[1..k -> S] : k \in 0..n}

California == <<"California">>

Texas == <<"Texas">>

Florida == <<"Florida">>

PuertoRico == <<"Puerto Rico">>

Y2023 == <<"2", "0", "2", "3">>

Y2022 == <<"2", "0", "2", "2">>

TaxCsv(state, year, taxType, stateTax, localTax) ==
  [state |-> state, year |-> year, tax_type |-> taxType,
   state_tax_revenue |-> stateTax, local_tax_revenue |-> localTax]

\* The rows a generated tax CSV file is made of: two labels with one slug, a
\* mapped label, fractional and parenthesized amounts, another year, a year that
\* is no number, an empty label.  (The files of few rows have the name outside
\* the roster.)
TaxRowValues ==
  { TaxCsv(California, Y2023, <<"A", " ", "b">>, <<"1", ".", "5">>, <<"1">>),
    TaxCsv(California, Y2023, <<"a", "-", "b">>, <<"2">>, <<>>),
    TaxCsv(Texas, Y2023, <<"I", "n", "c">>, <<"0", ".", "5">>, <<"0">>),
    TaxCsv(<<" ", "Florida">>, Y2023, <<"C">>, <<"$", "3">>, <<"1", ".", "5">>),
    TaxCsv(Texas, Y2022, <<"C">>, <<"9">>, <<"9">>),
    TaxCsv(Florida, <<"n", "/", "a">>, <<"A", " ", "b">>, <<"(", "2", ")">>, <<"1">>),
    TaxCsv(California, Y2023, <<" ">>, <<"4">>, <<"4">>) }

PopulationCsv(state, year, population) ==
  [state |-> state, year |-> year, population |-> population]

\* The rows a generated population CSV file is made of: the populations 10, 30
\* and 20, a duplicate that ties, another year, a population that is not
\* positive, a year that is no number.
PopulationRowValues ==
  { PopulationCsv(California, Y2023, <<"1", "0">>),
    PopulationCsv(Texas, Y2023, <<"3", "0">>),
    PopulationCsv(Florida, Y2023, <<"2", "0">>),
    PopulationCsv(California, Y2023, <<"3", "0">>),
    PopulationCsv(Florida, Y2022, <<"9", "0">>),
    PopulationCsv(Texas, Y2023, <<"0">>),
    PopulationCsv(Florida, <<"n", "/", "a">>, <<"3", "0">>) }

TaxFilesWide ==
  {CsvFile("missing", <<>>), CsvFile("malformed", <<>>)}
    \cup {CsvFile("ok", rows) : rows \in SeqsUpTo(TaxRowValues, MaxTaxRows)}

PopulationFilesWide ==
  {CsvFile("missing", <<>>), CsvFile("malformed", <<>>)}
    \cup {CsvFile("ok", rows) : rows \in SeqsUpTo(PopulationRowValues, MaxPopulationRows)}

TaxFilesFew ==
  { CsvFile("ok", << TaxCsv(California, Y2023, <<"A", " ", "b">>, <<"1", ".", "5">>, <<"1">>),
                     TaxCsv(PuertoRico, Y2023, <<"C">>, <<"7">>, <<"7">>),
                     TaxCsv(Texas, Y2023, <<"I", "n", "c">>, <<"0", ".", "5">>, <<"0">>),
                     TaxCsv(<<" ", "Florida">>, Y2023, <<"C">>, <<"$", "3">>, <<>>) >>) }

PopulationFilesFew ==
  { CsvFile("ok", << PopulationCsv(California, Y2023, <<"1", "0">>),
                     PopulationCsv(Texas, Y2023, <<"3", "0">>),
                     PopulationCsv(PuertoRico, Y2023, <<"9", "0">>),
                     PopulationCsv(Florida, Y2023, <<"2", "0">>) >>) }

Census(name, year, code, govType, amount) ==
  [NAME |-> name, YEAR |-> year, AGG_DESC |-> code, GOVTYPE |-> govType, AMOUNT |-> amount]

\* The rows a generated Census API tax source is made of.
CensusRowValues ==
  { Census(Texas, Y2023, <<"LF0009">>, <<"002">>, <<"1", ",", "0", "0", "0">>),
    Census(Texas, Y2023, <<"LF0009">>, <<"003">>, <<"5", "0", "0">>),
    Census(Texas, Y2023, <<"LF0024">>, <<"002">>, <<"1", "0">>),
    Census(PuertoRico, Y2023, <<"LF0009">>, <<"002">>, <<"7", "0">>),
    Census(Texas, Y2022, <<"LF0009">>, <<"002">>, <<"9", "0">>),
    Census(California, Y2023, <<"LF0099">>, <<"002">>, <<"5">>),
    Census(California, Y2023, <<"LF0022">>, <<"001">>, <<"5">>),
    Census(California, Y2023, <<"LF0022">>, <<"002">>, <<"(", "5", ")">>) }

\* The rows of the Census API tax sources of the normalize script taken alone:
\* those above but the one outside the roster, a second license code, a local
\* amount that cancels a parenthesized state amount, and an amount of zero.
CensusRowValuesMore ==
  (CensusRowValues \ {Census(PuertoRico, Y2023, <<"LF0009">>, <<"002">>, <<"7", "0">>)})
    \cup { Census(Texas, Y2023, <<"LF0025">>, <<"003">>, <<"4">>),
           Census(California, Y2023, <<"LF0022">>, <<"003">>, <<"5">>),
           Census(California, Y2023, <<"LF0011">>, <<"002">>, <<"0">>) }

Labelled(name, year, label, stateTax, localTax) ==
  [State |-> name, YEAR |-> year, category |-> label,
   state_amount |-> stateTax, local_amount |-> localTax]

\* The rows a generated pre-normalized tax source is made of (alias columns).
LabelledRowValues ==
  { Labelled(California, Y2023, <<"A", " ", "b">>, <<"1", ".", "5">>, <<"1">>),
    Labelled(PuertoRico, Y2023, <<"C">>, <<"7">>, <<"7">>),
    Labelled(Texas, Y2022, <<"C">>, <<"9">>, <<"9">>),
    Labelled(Texas, <<"n", "/", "a">>, <<"I", "n", "c">>, <<"0", ".", "5">>, <<>>),
    Labelled(Florida, Y2023, <<" ">>, <<"4">>, <<"4">>) }

Counted(name, year, population) == [NAME |-> name, YEAR |-> year, POP |-> population]

\* The rows a generated population source is made of.
CountedRowValues ==
  { Counted(California, Y2023, <<"1", "0", ".", "4">>),
    Counted(Texas, Y2023, <<"3", "0">>),
    Counted(PuertoRico, Y2023, <<"9", "0">>),
    Counted(Florida, Y2023, <<"0", ".", "4">>),
    Counted(Florida, Y2022, <<"2", "0">>) }

UnreadableSources ==
  { SourceFile("missing", FALSE, <<>>), SourceFile("blank", FALSE, <<>>),
    JsonFile(JsonArray(<<>>)), SourceFile("csv", FALSE, <<>>) }

SourceTaxWide ==
  UnreadableSources
    \cup {JsonFile(JsonTable(CensusHeader, rows)) :
            rows \in SeqsUpTo(CensusRowValues, MaxSourceRows) \ {<<>>}}
    \cup {SourceFile("csv", TRUE, rows) : rows \in SeqsUpTo(LabelledRowValues, MaxSourceRows)}

SourcePopulationWide ==
  UnreadableSources
    \cup {SourceFile("csv", TRUE, rows) : rows \in SeqsUpTo(CountedRowValues, MaxSourceRows)}

\* JSON texts of other shapes: no JSON, a header alone, a first item that is no
\* array, a row that is a number or null, a row shorter or longer than the header.
JsonShapes ==
  { InvalidJson,
    JsonArray(<<JsonArray(CensusHeader)>>),
    JsonArray(<<JsonNumber,
                JsonArray(<<Texas, Y2023, <<"LF0009">>, <<"002">>, <<"7">>>>)>>),
    JsonArray(<<JsonArray(CensusHeader), JsonNumber,
                JsonArray(<<Texas, Y2023, <<"LF0009">>, <<"002">>, <<"7">>>>)>>),
    JsonArray(<<JsonArray(CensusHeader), JsonNull>>),
    JsonArray(<<JsonArray(CensusHeader), JsonArray(<<Texas, Y2023>>)>>),
    JsonArray(<<JsonArray(CensusHeader),
                JsonArray(<<Texas, Y2023, <<"LF0009">>, <<"002">>, <<"7">>, <<"x">>>>)>>) }

SourceTaxOfNormalize ==
  UnreadableSources
    \cup {JsonFile(json) : json \in JsonShapes}
    \cup {JsonFile(JsonTable(CensusHeader, rows)) :
            rows \in SeqsUpTo(CensusRowValuesMore, MaxCensusRows) \ {<<>>}}
    \cup {SourceFile("csv", TRUE, rows) : rows \in SeqsUpTo(LabelledRowValues, MaxSourceRows)}

SourceTaxFew ==
  { JsonFile(JsonTable(CensusHeader,
      << Census(Texas, Y2023, <<"LF0009">>, <<"002">>, <<"1", ",", "0", "0", "0">>),
         Census(California, Y2023, <<"LF0022">>, <<"002">>, <<"2", ".", "5">>),
         Census(PuertoRico, Y2023, <<"LF0009">>, <<"002">>, <<"7", "0">>) >>)),
    SourceFile("csv", TRUE,
      << [state |-> Texas, tax_type |-> <<"C">>, state_tax_revenue |-> <<"3">>,
          local_tax_revenue |-> <<"1">>] >>) }

SourcePopulationFew ==
  { SourceFile("csv", TRUE,
      << Counted(California, Y2023, <<"1", "0", ".", "4">>),
         Counted(Texas, Y2023, <<"3", "0">>),
         Counted(PuertoRico, Y2023, <<"9", "0">>) >>),
    JsonFile(JsonTable(<<"state", "population">>,
                       << [state |-> Texas, population |-> <<"2", "0">>] >>)) }

\* The canonical CSV files an earlier run or the operator left under data/raw.
EarlierCsvFiles ==
  { <<CsvFile("missing", <<>>), CsvFile("missing", <<>>)>>,
    <<CsvFile("ok", <<TaxCsv(Florida, Y2023, <<"C">>, <<"8">>, <<"1">>)>>),
      CsvFile("malformed", <<>>)>>,
    <<CsvFile("ok", << TaxCsv(Florida, Y2023, <<"C">>, <<"8">>, <<"1">>),
                       TaxCsv(PuertoRico, Y2023, <<"C">>, <<"7">>, <<"7">>) >>),
      CsvFile("ok", << PopulationCsv(PuertoRico, Y2023, <<"9", "0">>),
                       PopulationCsv(Florida, Y2023, <<"2", "0">>) >>)>> }

(***************************************************************************)
(* State                                                                   *)
(***************************************************************************)
VARIABLES
  srcTax,            \* the downloaded tax source file (config.downloads.tax)
  srcPop,            \* the downloaded population source file
  csvTax,            \* data/raw/state-local-tax-by-type.csv
  csvPop,            \* data/raw/state-population.csv
  outJson,           \* public/data/state-tax-summary-2023.json
  topN,              \* config.topNStates
  clock,             \* the wall clock read by new Date()
  runs,              \* script runs started so far
  ipc,               \* where the ingest script's run is
  taxRows,           \* ingest: rows read from csvTax
  populationRows,    \* ingest: rows read from csvPop
  populationByState, \* ingest: Map state -> population
  topStates,         \* ingest: the selected states, ranked
  stateAggregation,  \* ingest: Map state -> accumulated record
  taxTypeOrder,      \* ingest: category keys in first-seen order
  payload,           \* ingest: the payload handed to writeFile
  iError,            \* ingest: the message of console.error, "" if none
  iExit,             \* ingest: the process exit code, -1 while running
  npc,               \* where the normalize script's run is
  nTaxRows,          \* normalize: rows parsed from srcTax
  nPopulationRows,   \* normalize: rows parsed from srcPop
  normalizedTaxRows,
  normalizedPopulationRows,
  nError,            \* normalize: the message of console.error, "" if none
  nExit,             \* normalize: the process exit code, -1 while running
  outAtStart,        \* history: outJson when the current ingest run started
  csvAtStart,        \* history: <<csvTax, csvPop>> when the current normalize run started
  written            \* history: one entry per completed write of outJson

files == <<srcTax, srcPop, csvTax, csvPop, outJson>>

ingestVars ==
  <<ipc, taxRows, populationRows, populationByState, topStates, stateAggregation,
    taxTypeOrder, payload, iError, iExit, outAtStart>>

normalizeVars ==
  <<npc, nTaxRows, nPopulationRows, normalizedTaxRows, normalizedPopulationRows,
    nError, nExit, csvAtStart>>

vars == <<files, topN, clock, runs, ingestVars, normalizeVars, written>>

\* The artifact before any run of the model: an earlier payload.
PriorOutput ==
  [metadata |-> [year |-> TargetYear, topN |-> 0, generatedAt |-> 0],
   taxTypes |-> <<>>,
   states |-> <<>>]

IngestIdle == ipc \in {"idle", "done", "failed"}

NormalizeIdle == npc \in {"idle", "done", "failed"}

(***************************************************************************)
(* ingest-state-tax-data.mjs: run, one action per stretch between awaits   *)
(***************************************************************************)
\* readCsv: the rows, or the error it throws.
readCsv(file) ==
  IF file.status = "missing" THEN [error |-> "Missing required source file", rows |-> <<>>]
  ELSE IF file.status = "malformed" THEN [error |-> "CSV parsing failed", rows |-> <<>>]
  ELSE [error |-> "", rows |-> file.rows]

\* EmptyAggregation with the states of the existing artifact carried over.
SeededAggregation ==
  [stateAggregation |->
     [i \in DOMAIN outJson.states |->
        [key |-> outJson.states[i].state,
         value |-> [state |-> outJson.states[i].state,
                    population |-> outJson.states[i].population,
                    totalRevenue |-> outJson.states[i].totalRevenue,
                    breakdown |-> outJson.states[i].breakdown]]],
   taxTypeOrder |-> <<>>,
   taxTypeSeen |-> {}]

\* new Map(), [] and new Set() of lines 170-172.
EmptyAggregation == [stateAggregation |-> <<>>, taxTypeOrder |-> <<>>, taxTypeSeen |-> {}]

\* Lines 227-244: the payload.
Payload(acc, n, now) ==
  [metadata |-> [year |-> TargetYear, topN |-> n, generatedAt |-> now],
   taxTypes |-> TaxTypes(acc.taxTypeOrder),
   states |-> BuildStates(acc.stateAggregation)]

\* IngestStart with the output file opened for writing, and so truncated, before
\* the inputs are read.
IngestStartTruncating ==
  /\ IngestIdle /\ NormalizeIdle
  /\ runs < MaxRuns
  /\ runs' = runs + 1
  /\ clock' = clock + 1
  /\ ipc' = "readTax"
  /\ taxRows' = <<>> /\ populationRows' = <<>>
  /\ populationByState' = <<>> /\ topStates' = <<>>
  /\ stateAggregation' = <<>> /\ taxTypeOrder' = <<>>
  /\ payload' = PriorOutput
  /\ iError' = "" /\ iExit' = -1
  /\ outAtStart' = outJson
  /\ outJson' = [metadata |-> [year |-> TargetYear, topN |-> topN, generatedAt |-> clock],
                 taxTypes |-> <<>>, states |-> <<>>]
  /\ UNCHANGED <<srcTax, srcPop, csvTax, csvPop, topN, normalizeVars, written>>

\* node scripts/ingest-state-tax-data.mjs: a fresh process; loadConfig.
IngestStart ==
  /\ IngestIdle /\ NormalizeIdle
  /\ runs < MaxRuns
  /\ runs' = runs + 1
  /\ clock' = clock + 1
  /\ ipc' = "readTax"
  /\ taxRows' = <<>> /\ populationRows' = <<>>
  /\ populationByState' = <<>> /\ topStates' = <<>>
  /\ stateAggregation' = <<>> /\ taxTypeOrder' = <<>>
  /\ payload' = PriorOutput
  /\ iError' = "" /\ iExit' = -1
  /\ outAtStart' = outJson
  /\ UNCHANGED <<files, topN, normalizeVars, written>>

\* await readCsv(taxCsvPath); a throw reaches run().catch: console.error, exit(1).
IngestReadTax ==
  /\ ipc = "readTax"
  /\ LET r == readCsv(csvTax) IN
       /\ taxRows' = r.rows
       /\ iError' = r.error
       /\ ipc' = IF r.error = "" THEN "readPopulation" ELSE "failed"
       /\ iExit' = IF r.error = "" THEN iExit ELSE 1
  /\ UNCHANGED <<files, topN, clock, runs, populationRows, populationByState, topStates,
                 stateAggregation, taxTypeOrder, payload, outAtStart, normalizeVars, written>>

\* await readCsv(populationCsvPath)
IngestReadPopulation ==
  /\ ipc = "readPopulation"
  /\ LET r == readCsv(csvPop) IN
       /\ populationRows' = r.rows
       /\ iError' = r.error
       /\ ipc' = IF r.error = "" THEN "aggregate" ELSE "failed"
       /\ iExit' = IF r.error = "" THEN iExit ELSE 1
  /\ UNCHANGED <<files, topN, clock, runs, taxRows, populationByState, topStates,
                 stateAggregation, taxTypeOrder, payload, outAtStart, normalizeVars, written>>

\* Lines 170-246, once the tax loop has run: the locals and the payload.
AggregateDone(byState, top, acc) ==
  /\ populationByState' = byState
  /\ topStates' = top
  /\ stateAggregation' = acc.stateAggregation
  /\ taxTypeOrder' = acc.taxTypeOrder
  /\ payload' = Payload(acc, topN, clock)
  /\ ipc' = "write"
  /\ UNCHANGED <<iError, iExit>>

\* Lines 168-212, once the top states are selected: the tax loop.
AggregateSelected(byState, top) ==
  AggregateDone(byState, top, TaxLoop(EmptyAggregation, taxRows, Range(top), byState))

\* Lines 159-166, once the population loop has run: the throw of line 160, which
\* reaches run().catch (console.error, exit(1)), or the selection.
AggregateResolved(byState) ==
  IF byState = <<>>
    THEN /\ populationByState' = byState
         /\ iError' = "No population rows found"
         /\ ipc' = "failed"
         /\ iExit' = 1
         /\ UNCHANGED <<topStates, stateAggregation, taxTypeOrder, payload>>
    ELSE AggregateSelected(byState, TopStates(byState, topN))

\* Lines 137-246: synchronous, up to the call of writeFile.
IngestAggregate ==
  /\ ipc = "aggregate"
  /\ AggregateResolved(PopulationLoop(<<>>, populationRows))
  /\ UNCHANGED <<files, topN, clock, runs, taxRows, populationRows, outAtStart,
                 normalizeVars, written>>

\* await writeFile(outputPath, ...): a whole-file replace; then console.log, exit 0.
IngestWrite ==
  /\ ipc = "write"
  /\ outJson' = payload
  /\ written' = Append(written, [taxRows |-> taxRows, populationRows |-> populationRows,
                                 topN |-> topN, payload |-> payload])
  /\ ipc' = "done"
  /\ iExit' = 0
  /\ UNCHANGED <<srcTax, srcPop, csvTax, csvPop, topN, clock, runs, taxRows, populationRows,
                 populationByState, topStates, stateAggregation, taxTypeOrder, payload,
                 iError, outAtStart, normalizeVars>>

IngestNext ==
  \/ IngestStart
  \/ IngestReadTax
  \/ IngestReadPopulation
  \/ IngestAggregate
  \/ IngestWrite

(***************************************************************************)
(* normalize-census-sources.mjs: run                                       *)
(***************************************************************************)
\* The record the headers.forEach of lines 127-131 builds of a row: header k
\* gets row[k], a later header of the same name overwriting an earlier one.  A
\* property set to undefined (no row[k]: a short row, a row that is a number)
\* is left out of the record; the readers take undefined and absent alike as
\* long as a header names no two aliases of one field.
RecordOfRow(headers, row) ==
  LET cells == IF row.type = "array" THEN row.items ELSE <<>>
      last(h) == CHOOSE k \in DOMAIN headers :
                   headers[k] = h /\ \A j \in DOMAIN headers : headers[j] = h => j <= k
  IN  [h \in { headers[k] : k \in { j \in DOMAIN headers : last(headers[j]) <= Len(cells) } }
         |-> cells[last(h)]]

\* parseCensusApiJson of a text that starts with '[': the rows, or the error
\* thrown by JSON.parse, by line 122 or by row[index] of a null row.
parseCensusApiJson(json) ==
  IF json.type = "invalid" THEN [error |-> "Unexpected token", rows |-> <<>>]
  ELSE IF json.type # "array" \/ Len(json.items) < 2 \/ json.items[1].type # "array"
    THEN [error |-> "Unexpected Census API JSON format", rows |-> <<>>]
  ELSE IF \E i \in 2..Len(json.items) :
            json.items[i].type = "null" /\ json.items[1].items # <<>>
    THEN [error |-> "Cannot read properties of null", rows |-> <<>>]
  ELSE [error |-> "",
        rows |-> [i \in 1..(Len(json.items) - 1) |->
                    RecordOfRow(json.items[1].items, json.items[i + 1])]]

\* parseSourceRows: the rows, or the error it throws.
parseSourceRows(file) ==
  IF file.kind = "missing" THEN [error |-> "ENOENT", rows |-> <<>>]
  ELSE IF file.kind = "blank" THEN [error |-> "Source file is empty", rows |-> <<>>]
  ELSE IF file.kind = "json" THEN parseCensusApiJson(file.json)
  ELSE IF ~file.ok THEN [error |-> "CSV parsing failed", rows |-> <<>>]
  ELSE [error |-> "", rows |-> file.rows]

\* node scripts/normalize-census-sources.mjs: a fresh process; loadConfig.
NormalizeStart ==
  /\ IngestIdle /\ NormalizeIdle
  /\ runs < MaxRuns
  /\ runs' = runs + 1
  /\ npc' = "parseTax"
  /\ nTaxRows' = <<>> /\ nPopulationRows' = <<>>
  /\ normalizedTaxRows' = <<>> /\ normalizedPopulationRows' = <<>>
  /\ nError' = "" /\ nExit' = -1
  /\ csvAtStart' = <<csvTax, csvPop>>
  /\ UNCHANGED <<files, topN, clock, ingestVars, written>>

\* await parseSourceRows(config.downloads.tax)
NormalizeParseTax ==
  /\ npc = "parseTax"
  /\ LET r == parseSourceRows(srcTax) IN
       /\ nTaxRows' = r.rows
       /\ nError' = r.error
       /\ npc' = IF r.error = "" THEN "parsePopulation" ELSE "failed"
       /\ nExit' = IF r.error = "" THEN nExit ELSE 1
  /\ UNCHANGED <<files, topN, clock, runs, ingestVars, nPopulationRows, normalizedTaxRows,
                 normalizedPopulationRows, csvAtStart, written>>

\* await parseSourceRows(config.downloads.population)
NormalizeParsePopulation ==
  /\ npc = "parsePopulation"
  /\ LET r == parseSourceRows(srcPop) IN
       /\ nPopulationRows' = r.rows
       /\ nError' = r.error
       /\ npc' = IF r.error = "" THEN "normalize" ELSE "failed"
       /\ nExit' = IF r.error = "" THEN nExit ELSE 1
  /\ UNCHANGED <<files, topN, clock, runs, ingestVars, nTaxRows, normalizedTaxRows,
                 normalizedPopulationRows, csvAtStart, written>>

\* Lines 263-269, once both normalizations are computed: the zero-row throws,
\* which reach run().catch (console.error, exit(1)).
NormalizeChecked(nt, np) ==
  /\ normalizedTaxRows' = nt
  /\ normalizedPopulationRows' = np
  /\ IF nt = <<>>
       THEN nError' = "Tax normalization produced zero rows" /\ npc' = "failed" /\ nExit' = 1
     ELSE IF np = <<>>
       THEN nError' = "Population normalization produced zero rows"
            /\ npc' = "failed" /\ nExit' = 1
     ELSE nError' = nError /\ npc' = "writeTax" /\ nExit' = nExit

\* Lines 237-269: synchronous; the two normalizations and the two zero-row
\* checks, up to the first writeCsv.
NormalizeRows ==
  /\ npc = "normalize"
  /\ NormalizeChecked(NormalizeTaxRows(nTaxRows), NormalizePopulationRows(nPopulationRows))
  /\ UNCHANGED <<files, topN, clock, runs, ingestVars, nTaxRows, nPopulationRows,
                 csvAtStart, written>>

\* await writeCsv(config.normalizedOutputs.tax, ...)
NormalizeWriteTax ==
  /\ npc = "writeTax"
  /\ csvTax' = CsvFile("ok", [i \in DOMAIN normalizedTaxRows |-> TaxCsvRow(normalizedTaxRows[i])])
  /\ npc' = "writePopulation"
  /\ UNCHANGED <<srcTax, srcPop, csvPop, outJson, topN, clock, runs, ingestVars, nTaxRows,
                 nPopulationRows, normalizedTaxRows, normalizedPopulationRows, nError, nExit,
                 csvAtStart, written>>

\* await writeCsv(config.normalizedOutputs.population, ...); console.log, exit 0.
NormalizeWritePopulation ==
  /\ npc = "writePopulation"
  /\ csvPop' = CsvFile("ok", [i \in DOMAIN normalizedPopulationRows |->
                                 PopulationCsvRow(normalizedPopulationRows[i])])
  /\ npc' = "done"
  /\ nExit' = 0
  /\ UNCHANGED <<srcTax, srcPop, csvTax, outJson, topN, clock, runs, ingestVars, nTaxRows,
                 nPopulationRows, normalizedTaxRows, normalizedPopulationRows, nError,
                 csvAtStart, written>>

NormalizeNext ==
  \/ NormalizeStart
  \/ NormalizeParseTax
  \/ NormalizeParsePopulation
  \/ NormalizeRows
  \/ NormalizeWriteTax
  \/ NormalizeWritePopulation

(***************************************************************************)
(* Specifications                                                          *)
(***************************************************************************)
InitRun ==
  /\ outJson = PriorOutput
  /\ clock = 0 /\ runs = 0
  /\ ipc = "idle"
  /\ taxRows = <<>> /\ populationRows = <<>>
  /\ populationByState = <<>> /\ topStates = <<>>
  /\ stateAggregation = <<>> /\ taxTypeOrder = <<>>
  /\ payload = PriorOutput
  /\ iError = "" /\ iExit = -1
  /\ npc = "idle"
  /\ nTaxRows = <<>> /\ nPopulationRows = <<>>
  /\ normalizedTaxRows = <<>> /\ normalizedPopulationRows = <<>>
  /\ nError = "" /\ nExit = -1
  /\ outAtStart = PriorOutput
  /\ csvAtStart = <<csvTax, csvPop>>
  /\ written = <<>>

\* The manual path: prepared CSV files under data/raw, the ingest script alone.
Init ==
  /\ srcTax = SourceFile("missing", FALSE, <<>>)
  /\ srcPop = SourceFile("missing", FALSE, <<>>)
  /\ \E pair \in (TaxFilesWide \X PopulationFilesFew) \cup (TaxFilesFew \X PopulationFilesWide) :
       csvTax = pair[1] /\ csvPop = pair[2]
  /\ topN \in 1..MaxTopN
  /\ InitRun

Next == IngestNext

Spec == Init /\ [][Next]_vars

\* The refresh path: downloaded sources, the normalize script and the ingest
\* script, one process at a time, in any order.
InitRefresh ==
  /\ \E pair \in (SourceTaxWide \X SourcePopulationFew)
                   \cup (SourceTaxFew \X SourcePopulationWide) :
       srcTax = pair[1] /\ srcPop = pair[2]
  /\ \E pair \in EarlierCsvFiles : csvTax = pair[1] /\ csvPop = pair[2]
  /\ topN \in 1..MaxTopN
  /\ InitRun

NextRefresh == IngestNext \/ NormalizeNext

SpecRefresh == InitRefresh /\ [][NextRefresh]_vars

\* The normalize script alone on downloaded sources, nothing under data/raw yet.
InitNormalize ==
  /\ srcTax \in SourceTaxOfNormalize
  /\ srcPop \in {file \in SourcePopulationFew : file.kind = "csv"}
  /\ csvTax = CsvFile("missing", <<>>) /\ csvPop = CsvFile("missing", <<>>)
  /\ topN = 1
  /\ InitRun

NextNormalize == NormalizeNext

SpecNormalize == InitNormalize /\ [][NextNormalize]_vars

(***************************************************************************)
(* Properties                                                              *)
(***************************************************************************)
RECURSIVE SumValues(_)
SumValues(m) == IF m = <<>> THEN 0 ELSE Head(m).value + SumValues(Tail(m))

\* A run of the ingest script has written the artifact.
OutputWritten == written # <<>>

\* C1: in every written output, the values of each state's breakdown sum to that
\* state's totalRevenue within one unit (10 tenths).
C1_BreakdownSumsToTotal ==
  \A i \in DOMAIN outJson.states :
    Abs(SumValues(outJson.states[i].breakdown) - outJson.states[i].totalRevenue) <= 10

\* A written output holds a state with two categories whose sum is fractional,
\* so that the rounded total differs from it.
C1_Witness ==
  /\ OutputWritten
  /\ \E i \in DOMAIN outJson.states :
       /\ Len(outJson.states[i].breakdown) >= 2
       /\ SumValues(outJson.states[i].breakdown) # outJson.states[i].totalRevenue

\* C2: in every written output, a state with population > 0 has perCapitaTotal
\* equal to its output totalRevenue divided by its population, rounded to two
\* decimal places.
C2_PerCapitaOfOutputTotal ==
  \A i \in DOMAIN outJson.states :
    outJson.states[i].population > 0 =>
      outJson.states[i].perCapitaTotal
        = ToFixed2(outJson.states[i].totalRevenue, outJson.states[i].population)

\* The roster states that have a strictly positive population row for the target
\* year.
StatesWithPopulation(rows) ==
  { normalizeState(rows[i], populationColumns.state) : i \in
      { j \in DOMAIN rows :
          /\ NumberOfCell(rows[j], populationColumns.year) = ConfigYear
          /\ normalizeState(rows[j], populationColumns.state) \in VALID_STATES
          /\ parseNumeric(rows[j], populationColumns.population) > 0 } }

\* C3: a written output holds min(topN, number of roster states with a strictly
\* positive population row for the target year) states, whatever the tax rows.
C3_StateCount ==
  ipc = "done" =>
    Len(outJson.states) = Min(topN, Cardinality(StatesWithPopulation(populationRows)))

\* C4: the output artifact is written only once both inputs are read and the
\* result is computed: until the write, and after an abort, the artifact is the
\* one the run found; after the write it is the computed payload.  The same
\* holds of the two files the normalize script writes.
C4_WriteOnlyAfterComputed ==
  /\ ipc \in {"readTax", "readPopulation", "aggregate", "write", "failed"} =>
       outJson = outAtStart
  /\ ipc = "failed" => iExit = 1 /\ iError # ""
  /\ ipc = "done" => outJson = payload /\ iExit = 0 /\ iError = ""
  /\ npc \in {"parseTax", "parsePopulation", "normalize", "writeTax", "failed"} =>
       <<csvTax, csvPop>> = csvAtStart
  /\ npc = "failed" => nExit = 1 /\ nError # ""

\* An ingest run that read the tax file and aborted on the population file,
\* after a normalize run that aborted as well.
C4_Witness ==
  /\ ipc = "failed" /\ iError = "CSV parsing failed" /\ taxRows # <<>>
  /\ npc = "failed"
  /\ outJson = outAtStart
  /\ <<csvTax, csvPop>> = csvAtStart

\* C5: two runs on identical tax rows, population rows and configuration write
\* identical taxTypes and identical states; only the timestamp may differ.
C5_SameInputsSameOutput ==
  \A i, j \in DOMAIN written :
    ( /\ written[i].taxRows = written[j].taxRows
      /\ written[i].populationRows = written[j].populationRows
      /\ written[i].topN = written[j].topN )
    => /\ written[i].payload.taxTypes = written[j].payload.taxTypes
       /\ written[i].payload.states = written[j].payload.states

\* Two completed runs on the same inputs, with states in the output and
\* different timestamps.
C5_Witness ==
  /\ Len(written) = 2
  /\ written[1].taxRows = written[2].taxRows
  /\ written[1].populationRows = written[2].populationRows
  /\ Len(written[2].payload.states) >= 2
  /\ written[1].payload.metadata.generatedAt # written[2].payload.metadata.generatedAt

TaxRowInRoster(row) == normalizeState(row, taxColumns.state) \in VALID_STATES

PopulationRowInRoster(row) == normalizeState(row, populationColumns.state) \in VALID_STATES

\* The payload of the rows read, computed as the run computes it.
PayloadOfRows(taxInput, populationInput) ==
  LET byState == PopulationLoop(<<>>, populationInput)
      top     == TopStates(byState, topN)
  IN  Payload(TaxLoop(EmptyAggregation, taxInput, Range(top), byState), topN, clock)

\* C6: no row whose state is outside the 50-state roster contributes: the
\* normalized tax and population rows hold roster states only, the selected and
\* the output states are roster states, and the payload is the one the run
\* computes from its input with the rows of other states removed.
C6_OnlyRosterStatesContribute ==
  /\ \A i \in DOMAIN normalizedTaxRows : normalizedTaxRows[i].state \in VALID_STATES
  /\ \A i \in DOMAIN normalizedPopulationRows :
       normalizedPopulationRows[i].state \in VALID_STATES
  /\ Range(topStates) \subseteq VALID_STATES
  /\ \A i \in DOMAIN outJson.states : outJson.states[i].state \in VALID_STATES
  /\ ipc \in {"write", "done"} =>
       LET clean == PayloadOfRows(SelectSeq(taxRows, TaxRowInRoster),
                                  SelectSeq(populationRows, PopulationRowInRoster))
       IN  /\ payload.states = clean.states
           /\ payload.taxTypes = clean.taxTypes

\* A normalize run on pre-normalized sources with well-formed Puerto Rico rows
\* on both sides, followed by an ingest run that wrote states.
C6_Witness ==
  /\ npc = "done" /\ ipc = "done"
  /\ ~LooksLikeCensusApi(nTaxRows)
  /\ \E i \in DOMAIN nTaxRows :
       /\ MapTaxRow(nTaxRows[i]).state = PuertoRico
       /\ MapTaxRow(nTaxRows[i]).state_tax_revenue > 0
  /\ \E i \in DOMAIN nPopulationRows :
       /\ MapPopulationRow(nPopulationRows[i]).state = PuertoRico
       /\ MapPopulationRow(nPopulationRows[i]).population > 0
  /\ outJson.states # <<>>

TaxRowOfTargetYear(row) == NumberOfCell(row, taxColumns.year) = ConfigYear

TaxRowOfNumericOtherYear(row) ==
  /\ ~NumberOfCell(row, taxColumns.year).nan
  /\ NumberOfCell(row, taxColumns.year) # ConfigYear

TaxRowNotOfNumericOtherYear(row) == ~TaxRowOfNumericOtherYear(row)

\* C7 as stated: every tax row emitted by normalization has the target year,
\* and the written breakdowns are those of the target-year tax rows alone.
C7_OnlyTargetYearRows ==
  /\ \A i \in DOMAIN normalizedTaxRows : normalizedTaxRows[i].year = ConfigYear
  /\ ipc \in {"write", "done"} =>
       payload.states = PayloadOfRows(SelectSeq(taxRows, TaxRowOfTargetYear),
                                      populationRows).states

\* C7 amended: a tax row whose year is a number other than the target year never
\* contributes: the written payload is the one computed from the tax rows
\* without them.
C7_NumericOtherYearNeverContributes ==
  ipc \in {"write", "done"} =>
    LET kept == PayloadOfRows(SelectSeq(taxRows, TaxRowNotOfNumericOtherYear), populationRows)
    IN  /\ payload.states = kept.states
        /\ payload.taxTypes = kept.taxTypes

\* Normalization emitted a tax row of another year, and the ingest run that
\* followed read it, for a selected state, and wrote states.
C7_Witness ==
  /\ npc = "done" /\ ipc = "done"
  /\ \E i \in DOMAIN normalizedTaxRows :
       ~normalizedTaxRows[i].year.nan /\ normalizedTaxRows[i].year # ConfigYear
  /\ \E i \in DOMAIN taxRows :
       /\ TaxRowOfNumericOtherYear(taxRows[i])
       /\ \E j \in DOMAIN topStates : topStates[j] = normalizeState(taxRows[i], taxColumns.state)
       /\ parseNumeric(taxRows[i], taxColumns.stateTaxRevenue) > 0
  /\ outJson.states # <<>>

\* The population rows the population loop uses: not of another year, a roster
\* state, a population above zero.
ValidPopulationRow(row) ==
  /\ NumberOfCell(row, populationColumns.year) \in {ConfigYear, NaN}
  /\ normalizeState(row, populationColumns.state) \in VALID_STATES
  /\ parseNumeric(row, populationColumns.population) > 0

ValidRowsOf(rows, state) ==
  { i \in DOMAIN rows :
      ValidPopulationRow(rows[i]) /\ normalizeState(rows[i], populationColumns.state) = state }

RankedStates(rows) ==
  { normalizeState(rows[i], populationColumns.state) :
      i \in { j \in DOMAIN rows : ValidPopulationRow(rows[j]) } }

FirstRowOf(rows, state) ==
  CHOOSE i \in ValidRowsOf(rows, state) : \A j \in ValidRowsOf(rows, state) : i <= j

\* The population of a state: that of its last valid row.
PopulationOf(rows, state) ==
  parseNumeric(rows[CHOOSE i \in ValidRowsOf(rows, state) :
                      \A j \in ValidRowsOf(rows, state) : j <= i],
               populationColumns.population)

\* state a ranks before state b: a larger population or, with equal populations,
\* an earlier first row in the input.
RanksBefore(rows, a, b) ==
  \/ PopulationOf(rows, a) > PopulationOf(rows, b)
  \/ /\ PopulationOf(rows, a) = PopulationOf(rows, b)
     /\ FirstRowOf(rows, a) < FirstRowOf(rows, b)

\* C8: the selected states are the first topN states of the valid population
\* rows ranked descending by population, ties in input order; no unselected
\* state has a population strictly greater than a selected one.
C8_TopStatesRanked ==
  ipc \in {"write", "done"} =>
    /\ Len(topStates) = Min(topN, Cardinality(RankedStates(populationRows)))
    /\ Range(topStates) \subseteq RankedStates(populationRows)
    /\ \A i, j \in DOMAIN topStates :
         i < j => RanksBefore(populationRows, topStates[i], topStates[j])
    /\ \A s \in RankedStates(populationRows) \ Range(topStates) :
         \A i \in DOMAIN topStates :
           /\ RanksBefore(populationRows, topStates[i], s)
           /\ PopulationOf(populationRows, s) <= PopulationOf(populationRows, topStates[i])

\* Populations {California: 10, Texas: 30, Florida: 20} with topN = 2 select
\* Texas then Florida.
C8_Witness ==
  /\ ipc = "done" /\ topN = 2
  /\ populationByState = << [key |-> California, value |-> 100],
                            [key |-> Texas, value |-> 300],
                            [key |-> Florida, value |-> 200] >>
  /\ topStates = <<Texas, Florida>>

\* Two states with equal populations compete for the last place.
C8_TieWitness ==
  /\ ipc = "done"
  /\ \E s \in RankedStates(populationRows) \ Range(topStates) :
       \E i \in DOMAIN topStates :
         PopulationOf(populationRows, s) = PopulationOf(populationRows, topStates[i])

\* C9: a run with zero usable rows on the tax side or on the population side
\* aborts and writes nothing: a script that gets as far as its write has usable
\* rows on both sides.
C9_ZeroRowsAbort ==
  /\ npc \in {"writeTax", "writePopulation", "done"} =>
       normalizedTaxRows # <<>> /\ normalizedPopulationRows # <<>>
  /\ ipc \in {"write", "done"} =>
       populationByState # <<>> /\ stateAggregation # <<>>

\* The tax rows that contribute: not of another year, a selected state, a
\* category.
ContributingRow(row) ==
  /\ NumberOfCell(row, taxColumns.year) \in {ConfigYear, NaN}
  /\ \E j \in DOMAIN topStates : topStates[j] = normalizeState(row, taxColumns.state)
  /\ taxColumns.taxType \in DOMAIN row
  /\ Trim(row[taxColumns.taxType]) # <<>>

RowsOfKey(key) ==
  { i \in DOMAIN taxRows :
      ContributingRow(taxRows[i]) /\ TaxTypeKey(Trim(taxRows[i][taxColumns.taxType])) = key }

FirstSeen(key) == CHOOSE i \in RowsOfKey(key) : \A j \in RowsOfKey(key) : i <= j

\* C10: in a written output, taxTypes holds every category key of every
\* state's breakdown, each once, and nothing else, in the order of the first
\* contributing tax row of each key.
C10_TaxTypesFirstSeenOrder ==
  ipc = "done" =>
    /\ \A s \in DOMAIN outJson.states :
         \A b \in DOMAIN outJson.states[s].breakdown :
           \E t \in DOMAIN outJson.taxTypes :
             outJson.taxTypes[t].key = outJson.states[s].breakdown[b].key
    /\ \A t, u \in DOMAIN outJson.taxTypes :
         t # u => outJson.taxTypes[t].key # outJson.taxTypes[u].key
    /\ \A t \in DOMAIN outJson.taxTypes : RowsOfKey(outJson.taxTypes[t].key) # {}
    /\ \A t, u \in DOMAIN outJson.taxTypes :
         t < u => FirstSeen(outJson.taxTypes[t].key) < FirstSeen(outJson.taxTypes[u].key)

\* An output of two categories, one of them seen in more than one contributing
\* row.
C10_Witness ==
  /\ ipc = "done"
  /\ Len(outJson.taxTypes) >= 2
  /\ \E t \in DOMAIN outJson.taxTypes : Cardinality(RowsOfKey(outJson.taxTypes[t].key)) >= 2

\* The contributing tax rows of a state.
RowsOfState(state) ==
  { i \in DOMAIN taxRows :
      ContributingRow(taxRows[i]) /\ normalizeState(taxRows[i], taxColumns.state) = state }

FirstEncountered(state) ==
  CHOOSE i \in RowsOfState(state) : \A j \in RowsOfState(state) : i <= j

\* C11: in a written output the states are sorted descending by totalRevenue,
\* and states with equal totalRevenue keep the order in which they were first
\* encountered in the tax rows.
C11_StatesSortedByRevenue ==
  ipc = "done" =>
    /\ \A i \in DOMAIN outJson.states : RowsOfState(outJson.states[i].state) # {}
    /\ \A i, j \in DOMAIN outJson.states :
         i < j =>
           \/ outJson.states[i].totalRevenue > outJson.states[j].totalRevenue
           \/ /\ outJson.states[i].totalRevenue = outJson.states[j].totalRevenue
              /\ FirstEncountered(outJson.states[i].state)
                   < FirstEncountered(outJson.states[j].state)

\* A written output with two states of equal totalRevenue.
C11_Witness ==
  /\ ipc = "done"
  /\ \E i, j \in DOMAIN outJson.states :
       i < j /\ outJson.states[i].totalRevenue = outJson.states[j].totalRevenue

\* The category of a Census API row: that of its code in the lookup, the license
\* category for a license code, none otherwise.
CensusCategory(row) ==
  LET code == IF "AGG_DESC" \in DOMAIN row THEN Trim(row.AGG_DESC) ELSE <<>>
  IN  IF code \in DOMAIN CENSUS_TAX_CODE_TO_TYPE THEN CENSUS_TAX_CODE_TO_TYPE[code]
      ELSE IF code \in LICENSE_CODES THEN LicenseTax
      ELSE <<>>

CensusLevel(row) == IF "GOVTYPE" \in DOMAIN row THEN Trim(row.GOVTYPE) ELSE <<>>

CensusKey(row) ==
  [state |-> TrimmedOrEmpty(pickColumn(row, <<"NAME", "state", "State">>)),
   year |-> YearOrConfig(pickColumn(row, <<"YEAR", "year">>)),
   tax_type |-> CensusCategory(row)]

\* The rows that contribute to a bucket.
CensusRowCounts(row) ==
  /\ CensusKey(row).state \in VALID_STATES
  /\ CensusCategory(row) # <<>>
  /\ CensusLevel(row) \in {<<"002">>, <<"003">>}

\* The sum of the amounts of the rows of a key and a level indicator.
RECURSIVE SumAmounts(_, _, _)
SumAmounts(rows, key, level) ==
  IF rows = <<>> THEN 0
  ELSE (IF CensusRowCounts(Head(rows)) /\ CensusKey(Head(rows)) = key
           /\ CensusLevel(Head(rows)) = level
          THEN ParseNumericCell(pickColumn(Head(rows), <<"AMOUNT">>)) ELSE 0)
       + SumAmounts(Tail(rows), key, level)

\* The normalizations were computed: the run went on to write, or aborted on a
\* zero-row check.
CensusShapeNormalized ==
  /\ LooksLikeCensusApi(nTaxRows)
  /\ \/ npc \in {"writeTax", "writePopulation", "done"}
     \/ /\ npc = "failed"
        /\ nError \in {"Tax normalization produced zero rows",
                       "Population normalization produced zero rows"}

\* C12: the bucket of (state, year, category) holds the sum of the amounts of
\* its rows of level 002 on the state side and of level 003 on the local side;
\* there is one bucket per key that has a contributing row and no other; a row
\* of a license code goes to the license category; rows of a code in neither
\* lookup or of another level are in no sum.
C12_BucketsSumByLevel ==
  CensusShapeNormalized =>
    LET bucket == CensusLoop(<<>>, nTaxRows) IN
      /\ \A b \in DOMAIN bucket :
           /\ bucket[b].value.state_tax_revenue = SumAmounts(nTaxRows, bucket[b].key, <<"002">>)
           /\ bucket[b].value.local_tax_revenue = SumAmounts(nTaxRows, bucket[b].key, <<"003">>)
           /\ \E i \in DOMAIN nTaxRows :
                CensusRowCounts(nTaxRows[i]) /\ CensusKey(nTaxRows[i]) = bucket[b].key
           /\ \A c \in DOMAIN bucket : bucket[c].key = bucket[b].key => c = b
      /\ \A i \in DOMAIN nTaxRows :
           /\ CensusRowCounts(nTaxRows[i]) =>
                \E b \in DOMAIN bucket : bucket[b].key = CensusKey(nTaxRows[i])
           /\ (CensusRowCounts(nTaxRows[i]) /\ Trim(nTaxRows[i].AGG_DESC) \in LICENSE_CODES) =>
                \E b \in DOMAIN bucket :
                  /\ bucket[b].key.state = Trim(nTaxRows[i].NAME)
                  /\ bucket[b].key.tax_type = LicenseTax
      /\ \A n \in DOMAIN normalizedTaxRows :
           \E b \in DOMAIN bucket : bucket[b].value = normalizedTaxRows[n]

\* A normalize run that merged a 002 row and a 003 row of one key, and two
\* different license codes into one license row.
C12_Witness ==
  /\ npc = "done"
  /\ LooksLikeCensusApi(nTaxRows)
  /\ \E n \in DOMAIN normalizedTaxRows :
       /\ normalizedTaxRows[n].tax_type = LicenseTax
       /\ normalizedTaxRows[n].state_tax_revenue = 100
       /\ normalizedTaxRows[n].local_tax_revenue = 40
  /\ \E i \in DOMAIN nTaxRows : CensusCategory(nTaxRows[i]) = <<>>

TaxRowKey(row) == [state |-> row.state, year |-> row.year, tax_type |-> row.tax_type]

TaxNormalized ==
  /\ npc \in {"writeTax", "writePopulation", "done"}
  /\ nTaxRows # <<>>

\* C13 as stated: in both shapes the normalized tax rows hold at most one row
\* per (state, year, category).
C13_OneRowPerKey ==
  \A m, n \in DOMAIN normalizedTaxRows :
    TaxRowKey(normalizedTaxRows[m]) = TaxRowKey(normalizedTaxRows[n]) => m = n

\* The state-level and local-level amounts of the rows of a key, summed.
RECURSIVE SumOfKey(_, _, _)
SumOfKey(rows, key, side) ==
  IF rows = <<>> THEN 0
  ELSE (IF TaxRowKey(Head(rows)) = key THEN Head(rows)[side] ELSE 0)
       + SumOfKey(Tail(rows), key, side)

\* The pre-normalized input rows as read: state, year, category and amounts.
LabelledInput(rows) ==
  [i \in DOMAIN rows |->
     [state |-> TrimmedOrEmpty(pickColumn(rows[i], normalization.tax.state)),
      year |-> YearOrConfig(pickColumn(rows[i], normalization.tax.year)),
      tax_type |-> TrimmedOrEmpty(pickColumn(rows[i], normalization.tax.taxType)),
      state_tax_revenue |->
        ParseNumericCell(pickColumn(rows[i], normalization.tax.stateTaxRevenue)),
      local_tax_revenue |->
        ParseNumericCell(pickColumn(rows[i], normalization.tax.localTaxRevenue))]]

\* C13 amended: in the statistical-code shape the normalized tax rows hold at
\* most one row per (state, year, category); in the pre-normalized shape every
\* input row of a roster state with a category is a row of its own, and the
\* rows of one key keep, summed, the amounts of the input rows of that key.
C13_OneRowPerKeyInCensusShape ==
  TaxNormalized =>
    IF LooksLikeCensusApi(nTaxRows)
      THEN \A m, n \in DOMAIN normalizedTaxRows :
             TaxRowKey(normalizedTaxRows[m]) = TaxRowKey(normalizedTaxRows[n]) => m = n
      ELSE /\ Len(normalizedTaxRows)
                = Cardinality({ i \in DOMAIN nTaxRows :
                                  /\ LabelledInput(nTaxRows)[i].state \in VALID_STATES
                                  /\ LabelledInput(nTaxRows)[i].tax_type # <<>> })
           /\ \A n \in DOMAIN normalizedTaxRows :
                /\ SumOfKey(normalizedTaxRows, TaxRowKey(normalizedTaxRows[n]),
                            "state_tax_revenue")
                     = SumOfKey(LabelledInput(nTaxRows), TaxRowKey(normalizedTaxRows[n]),
                                "state_tax_revenue")
                /\ SumOfKey(normalizedTaxRows, TaxRowKey(normalizedTaxRows[n]),
                            "local_tax_revenue")
                     = SumOfKey(LabelledInput(nTaxRows), TaxRowKey(normalizedTaxRows[n]),
                                "local_tax_revenue")

\* A statistical-code run in which a 002 row and a 003 row of one key were
\* merged into one normalized row.
C13_Witness ==
  /\ npc = "done"
  /\ LooksLikeCensusApi(nTaxRows)
  /\ Len(normalizedTaxRows) = 1
  /\ normalizedTaxRows[1].state_tax_revenue > 0
  /\ normalizedTaxRows[1].local_tax_revenue > 0
  /\ Cardinality({ i \in DOMAIN nTaxRows : CensusRowCounts(nTaxRows[i]) }) >= 2

Emitted(row) == \E n \in DOMAIN normalizedTaxRows : normalizedTaxRows[n] = row

\* C14 as stated: a bucket whose combined state-level plus local-level amount
\* is exactly zero is not among the normalized tax rows.
C14_ZeroSumBucketDiscarded ==
  CensusShapeNormalized =>
    \A b \in DOMAIN CensusLoop(<<>>, nTaxRows) :
      LET row == CensusLoop(<<>>, nTaxRows)[b].value
      IN  row.state_tax_revenue + row.local_tax_revenue = 0 => ~Emitted(row)

\* The filter of line 206 as the code applies it: a bucket is discarded exactly
\* when neither its state-level amount nor its local-level amount is greater
\* than zero.
BucketKeptIffPositiveSide ==
  CensusShapeNormalized =>
    \A b \in DOMAIN CensusLoop(<<>>, nTaxRows) :
      LET row == CensusLoop(<<>>, nTaxRows)[b].value
      IN  Emitted(row) <=> (row.state_tax_revenue > 0 \/ row.local_tax_revenue > 0)

\* A run that discarded a bucket of amounts zero and zero and emitted another.
ZeroBucketDiscarded ==
  /\ CensusShapeNormalized /\ npc = "done"
  /\ \E b \in DOMAIN CensusLoop(<<>>, nTaxRows) :
       LET row == CensusLoop(<<>>, nTaxRows)[b].value
       IN  row.state_tax_revenue = 0 /\ row.local_tax_revenue = 0 /\ ~Emitted(row)

\* C15: every normalized tax row has a state-level amount >= 0 and a
\* local-level amount >= 0, whatever the input amounts, parenthesized ones
\* included.
C15_AmountsNonNegative ==
  \A n \in DOMAIN normalizedTaxRows :
    /\ normalizedTaxRows[n].state_tax_revenue >= 0
    /\ normalizedTaxRows[n].local_tax_revenue >= 0

\* The population loop has run.
PopulationResolved ==
  \/ ipc \in {"write", "done"}
  \/ ipc = "failed" /\ iError = "No population rows found"

\* The rows of a state that are of the target year, with a population above zero.
TargetYearRowsOf(rows, state) ==
  { i \in DOMAIN rows :
      /\ NumberOfCell(rows[i], populationColumns.year) = ConfigYear
      /\ normalizeState(rows[i], populationColumns.state) = state
      /\ state \in VALID_STATES
      /\ parseNumeric(rows[i], populationColumns.population) > 0 }

StatesOfRows(rows) == { normalizeState(rows[i], populationColumns.state) : i \in DOMAIN rows }

\* C16 as stated: the resolved population of a state is that of its last
\* target-year row with a population above zero, and a state without such a row
\* is absent.
C16_LastTargetYearRow ==
  PopulationResolved =>
    /\ \A p \in DOMAIN populationByState :
         LET valid == TargetYearRowsOf(populationRows, populationByState[p].key)
         IN  /\ valid # {}
             /\ populationByState[p].value
                  = parseNumeric(populationRows[CHOOSE i \in valid : \A j \in valid : j <= i],
                                 populationColumns.population)
    /\ \A s \in StatesOfRows(populationRows) :
         TargetYearRowsOf(populationRows, s) # {} => MapHas(populationByState, s)

\* C16 amended: the resolved population of a state is that of its last row with
\* a population above zero whose year is the target year or is not a number;
\* rows with a population that is not positive, a year that is another number
\* or a state outside the roster never change it, and a state without a valid
\* row is absent.
C16_LastValidRow ==
  PopulationResolved =>
    /\ \A p \in DOMAIN populationByState :
         /\ populationByState[p].key \in RankedStates(populationRows)
         /\ populationByState[p].value = PopulationOf(populationRows, populationByState[p].key)
         /\ \A q \in DOMAIN populationByState :
              populationByState[q].key = populationByState[p].key => q = p
    /\ \A s \in RankedStates(populationRows) : MapHas(populationByState, s)

\* A state with two valid rows of different populations, resolved with rows in
\* the input that are not valid.
C16_Witness ==
  /\ ipc = "done"
  /\ \E s \in RankedStates(populationRows) :
       /\ Cardinality(ValidRowsOf(populationRows, s)) >= 2
       /\ parseNumeric(populationRows[FirstRowOf(populationRows, s)],
                       populationColumns.population)
            # PopulationOf(populationRows, s)
       /\ MapGet(populationByState, s) = PopulationOf(populationRows, s)
  /\ \E i \in DOMAIN populationRows : ~ValidPopulationRow(populationRows[i])

\* The decoded JSON is a non-empty array of arrays.
NonEmptyArrayOfArrays(json) ==
  /\ json.type = "array"
  /\ json.items # <<>>
  /\ \A i \in DOMAIN json.items : json.items[i].type = "array"

\* The tax source has been read, or the read has failed.
TaxSourceRead == npc \notin {"idle", "parseTax"}

TaxSourceFailed ==
  /\ npc = "failed"
  /\ nError \in {"Unexpected Census API JSON format", "Unexpected token",
                 "Cannot read properties of null"}

\* C17: for a text that starts with '[' the reader fails with a parse error
\* exactly when the decoded JSON is not a non-empty array of arrays, and
\* otherwise returns one record per row after the header, header i mapped to
\* the row's value i; blank content fails with the empty-source error.
C17_JsonFailsIffNotArrayOfArrays ==
  /\ (TaxSourceRead /\ srcTax.kind = "json") =>
       IF NonEmptyArrayOfArrays(srcTax.json)
         THEN /\ ~TaxSourceFailed
              /\ nTaxRows = [i \in 1..(Len(srcTax.json.items) - 1) |->
                               RecordOfRow(srcTax.json.items[1].items, srcTax.json.items[i + 1])]
         ELSE TaxSourceFailed
  /\ (TaxSourceRead /\ srcTax.kind = "blank") =>
       npc = "failed" /\ nError = "Source file is empty"

====
